---- MODULE Spec2Model ----
(***************************************************************************)
(* A model of the Chip8 class of catemuhdr.cpp: the machine state, Reset,  *)
(* LoadROM, Cycle (fetch, decode and the sixteen opcode handlers),         *)
(* UpdateTimers, SetKey and ClearDrawFlag.                                 *)
(*                                                                         *)
(* The arrays of the class are indexed without bounds checks.  An index    *)
(* outside its array is undefined behaviour; the model resolves it by a    *)
(* nondeterministic choice u made per Cycle: either the access lands in    *)
(* the member that the declaration order of the class places at that       *)
(* offset (u.layout), or a read yields the byte u.byte and a write is      *)
(* lost.                                                                   *)
(***************************************************************************)
EXTENDS Integers, Sequences, FiniteSets, TLC

\* ---------------------------------------------------------------- constants
MEMORY_SIZE == 4096
START_ADDR == 512
FONTSET_ADDR == 0
FONTSET_SIZE == 80
DISPLAY_WIDTH == 64
DISPLAY_HEIGHT == 32
STACK_SIZE == 16
NUM_REGS == 16
NUM_KEYS == 16

fontset ==
  << 240, 144, 144, 144, 240,
      32,  96,  32,  32, 112,
     240,  16, 240, 128, 240,
     240,  16, 240,  16, 240,
     144, 144, 240,  16,  16,
     240, 128, 240,  16, 240,
     240, 128, 240, 144, 240,
     240,  16,  32,  64,  64,
     240, 144, 240, 144, 240,
     240, 144, 240,  16, 240,
     240, 144, 240, 144, 144,
     224, 144, 224, 144, 224,
     240, 128, 128, 128, 240,
     224, 144, 144, 144, 224,
     240, 128, 240, 128, 240,
     240, 128, 240, 128, 128 >>

\* ------------------------------------------------------------------- bounds
\* Cycle calls explored after construction, a Reset or a LoadROM
MaxCycles == 18
\* number of host keys the input source presses and releases
MaxHostKeys == 2
\* Cycle calls explored of one of the short programs further below
MaxRunCycles == 40

\* bytes an out-of-range read may yield when it does not follow the layout
OobBytes == {0, 255}
\* bytes rand() % 256 is sampled from
RandBytes == {0, 165}
\* the keys the input source uses (HandleEvents maps sixteen host keys)
HostKeys == {k \in 0 .. NUM_KEYS - 1 : k < MaxHostKeys - 1 \/ k = NUM_KEYS - 1}

\* ------------------------------------------------------------ integer types
Byte(x) == x % 256
Word(x) == x % 65536

RECURSIVE Bitwise(_, _, _, _)
Bitwise(f, a, b, n) ==
  IF n = 0 THEN 0
  ELSE f[a % 2][b % 2] + 2 * Bitwise(f, a \div 2, b \div 2, n - 1)

BitOr(a, b) == Bitwise([p \in 0 .. 1 |-> [q \in 0 .. 1 |-> IF p + q > 0 THEN 1 ELSE 0]], a, b, 8)
BitAnd(a, b) == Bitwise([p \in 0 .. 1 |-> [q \in 0 .. 1 |-> p * q]], a, b, 8)
BitXor(a, b) == Bitwise([p \in 0 .. 1 |-> [q \in 0 .. 1 |-> (p + q) % 2]], a, b, 8)

\* -------------------------------------------------------------------- state
\* the members of Chip8, and four records of the run so far: call, the call
\* made last; oob, the arrays indexed out of range; cycles, the Cycles run;
\* pending, the calls (2NNN) not yet returned from
VARIABLES memory, V, I, pc, sp, stack, delay_timer, sound_timer, keypad,
          display, drawFlag, call, oob, cycles, pending

machineVars == <<memory, V, I, pc, sp, stack, delay_timer, sound_timer,
                 keypad, display, drawFlag>>
vars == <<memory, V, I, pc, sp, stack, delay_timer, sound_timer, keypad,
          display, drawFlag, call, oob, cycles, pending>>

\* the private members of Chip8 as one value
Machine ==
  [memory |-> memory, V |-> V, I |-> I, pc |-> pc, sp |-> sp,
   stack |-> stack, delay_timer |-> delay_timer,
   sound_timer |-> sound_timer, keypad |-> keypad, display |-> display,
   drawFlag |-> drawFlag]

\* offsets of the members in declaration order (uint16_t members 2-aligned)
OFF_V == MEMORY_SIZE
OFF_I == OFF_V + NUM_REGS
OFF_PC == OFF_I + 2
OFF_SP == OFF_PC + 2
OFF_STACK == OFF_SP + 2
OFF_DELAY == OFF_STACK + 2 * STACK_SIZE
OFF_SOUND == OFF_DELAY + 1
OFF_KEYPAD == OFF_SOUND + 1
OFF_DISPLAY == OFF_KEYPAD + NUM_KEYS
OFF_DRAWFLAG == OFF_DISPLAY + DISPLAY_WIDTH * DISPLAY_HEIGHT

\* the ways one Cycle resolves its out-of-range accesses and its rand()
Resolutions == [layout : BOOLEAN, byte : OobBytes, rnd : RandBytes]

\* the byte the class layout holds at offset off, past the memory array
RawRead(m, off, u) ==
  IF off < OFF_I THEN m.V[off - OFF_V]
  ELSE IF off = OFF_I THEN m.I % 256
  ELSE IF off = OFF_I + 1 THEN m.I \div 256
  ELSE IF off = OFF_PC THEN m.pc % 256
  ELSE IF off = OFF_PC + 1 THEN m.pc \div 256
  ELSE IF off = OFF_SP THEN m.sp
  ELSE IF off < OFF_STACK THEN u.byte
  ELSE IF off < OFF_DELAY THEN
    LET w == m.stack[(off - OFF_STACK) \div 2]
    IN  IF (off - OFF_STACK) % 2 = 0 THEN w % 256 ELSE w \div 256
  ELSE IF off = OFF_DELAY THEN m.delay_timer
  ELSE IF off = OFF_SOUND THEN m.sound_timer
  ELSE IF off < OFF_DISPLAY THEN m.keypad[off - OFF_KEYPAD]
  ELSE IF off < OFF_DRAWFLAG THEN m.display[off - OFF_DISPLAY]
  ELSE IF off = OFF_DRAWFLAG THEN (IF m.drawFlag THEN 1 ELSE 0)
  ELSE u.byte

\* the machine after byte b is stored at offset off, past the memory array
RawWrite(m, off, b) ==
  IF off < OFF_I THEN [m EXCEPT !.V[off - OFF_V] = b]
  ELSE IF off = OFF_I THEN [m EXCEPT !.I = (@ \div 256) * 256 + b]
  ELSE IF off = OFF_I + 1 THEN [m EXCEPT !.I = b * 256 + (@ % 256)]
  ELSE IF off = OFF_PC THEN [m EXCEPT !.pc = (@ \div 256) * 256 + b]
  ELSE IF off = OFF_PC + 1 THEN [m EXCEPT !.pc = b * 256 + (@ % 256)]
  ELSE IF off = OFF_SP THEN [m EXCEPT !.sp = b]
  ELSE IF off < OFF_STACK THEN m
  ELSE IF off < OFF_DELAY THEN
    LET k == (off - OFF_STACK) \div 2
    IN  IF (off - OFF_STACK) % 2 = 0
        THEN [m EXCEPT !.stack[k] = (@ \div 256) * 256 + b]
        ELSE [m EXCEPT !.stack[k] = b * 256 + (@ % 256)]
  ELSE IF off = OFF_DELAY THEN [m EXCEPT !.delay_timer = b]
  ELSE IF off = OFF_SOUND THEN [m EXCEPT !.sound_timer = b]
  ELSE IF off < OFF_DISPLAY THEN [m EXCEPT !.keypad[off - OFF_KEYPAD] = b]
  ELSE IF off < OFF_DRAWFLAG THEN [m EXCEPT !.display[off - OFF_DISPLAY] = b]
  ELSE IF off = OFF_DRAWFLAG THEN [m EXCEPT !.drawFlag = (b # 0)]
  ELSE m

\* an out-of-range read and write at object offset off
OobRead(m, off, u) == IF u.layout THEN RawRead(m, off, u) ELSE u.byte
OobWrite(m, off, b, u) == IF u.layout THEN RawWrite(m, off, b) ELSE m

\* records in m.oobs that array arr was indexed out of range
Touch(m, arr, inRange) ==
  IF inRange THEN m ELSE [m EXCEPT !.oobs = @ \cup {arr}]

\* memory[a] as an rvalue and as the target of an assignment
MemRead(m, a, u) ==
  IF a < MEMORY_SIZE THEN m.memory[a] ELSE OobRead(m, a, u)
MemWrite(m, a, b, u) ==
  IF a < MEMORY_SIZE THEN [m EXCEPT !.memory[a] = b]
  ELSE OobWrite(Touch(m, "memory", FALSE), a, b, u)

\* stack[k] as an rvalue and as the target of an assignment
StackRead(m, k, u) ==
  IF k < STACK_SIZE THEN m.stack[k]
  ELSE OobRead(m, OFF_STACK + 2 * k, u)
       + 256 * OobRead(m, OFF_STACK + 2 * k + 1, u)
StackWrite(m, k, w, u) ==
  IF k < STACK_SIZE THEN [m EXCEPT !.stack[k] = w]
  ELSE OobWrite(OobWrite(Touch(m, "stack", FALSE),
                         OFF_STACK + 2 * k, w % 256, u),
                OFF_STACK + 2 * k + 1, w \div 256, u)

\* keypad[k] as an rvalue
KeyRead(m, k, u) ==
  IF k < NUM_KEYS THEN m.keypad[k] ELSE OobRead(m, OFF_KEYPAD + k, u)

\* ------------------------------------------------------------ Reset state
ResetMemory ==
  [a \in 0 .. MEMORY_SIZE - 1 |->
     IF a >= FONTSET_ADDR /\ a < FONTSET_ADDR + FONTSET_SIZE
     THEN fontset[a - FONTSET_ADDR + 1] ELSE 0]

ResetMachine ==
  [memory |-> ResetMemory,
   V |-> [r \in 0 .. NUM_REGS - 1 |-> 0],
   I |-> 0, pc |-> START_ADDR, sp |-> 0,
   stack |-> [k \in 0 .. STACK_SIZE - 1 |-> 0],
   delay_timer |-> 0, sound_timer |-> 0,
   keypad |-> [k \in 0 .. NUM_KEYS - 1 |-> 0],
   display |-> [c \in 0 .. DISPLAY_WIDTH * DISPLAY_HEIGHT - 1 |-> 0],
   drawFlag |-> FALSE]

\* the next state of the members is m
Becomes(m) ==
  /\ memory' = m.memory
  /\ V' = m.V
  /\ I' = m.I
  /\ pc' = m.pc
  /\ sp' = m.sp
  /\ stack' = m.stack
  /\ delay_timer' = m.delay_timer
  /\ sound_timer' = m.sound_timer
  /\ keypad' = m.keypad
  /\ display' = m.display
  /\ drawFlag' = m.drawFlag

\* what a Cycle that fetches a word other than DXYN sees of the screen
NoDraw == [x |-> 0, y |-> 0, i |-> 0, lit |-> {}]

\* the call made last: its name, its arguments (for Cycle the word fetched
\* and the address it was fetched at), what it wrote to std::cerr and, for
\* a Cycle that fetched DXYN, what it saw before it drew: the origin, the
\* index register and the pixels that were on
Called(op, a, b, err) ==
  [op |-> op, a |-> a, b |-> b, err |-> err, seen |-> NoDraw]

\* the state of the members is m
Is(m) ==
  /\ memory = m.memory
  /\ V = m.V
  /\ I = m.I
  /\ pc = m.pc
  /\ sp = m.sp
  /\ stack = m.stack
  /\ delay_timer = m.delay_timer
  /\ sound_timer = m.sound_timer
  /\ keypad = m.keypad
  /\ display = m.display
  /\ drawFlag = m.drawFlag

Init ==
  /\ Is(ResetMachine)
  /\ call = Called("Chip8", 0, 0, "")
  /\ oob = {}
  /\ cycles = 0
  /\ pending = <<>>

\* Reset without the memset of keypad
ResetKeepsKeys ==
  /\ Becomes([ResetMachine EXCEPT !.keypad = keypad])
  /\ call' = Called("Reset", 0, 0, "")
  /\ oob' = {}
  /\ cycles' = 0
  /\ pending' = <<>>

Reset ==
  /\ Becomes(ResetMachine)
  /\ call' = Called("Reset", 0, 0, "")
  /\ oob' = {}
  /\ cycles' = 0
  /\ pending' = <<>>

\* ------------------------------------------------------- opcode handlers
\* opcode words are written by their four nibbles
Op(n1, x, y, n) == n1 * 4096 + x * 256 + y * 16 + n

Skip(m) == [m EXCEPT !.pc = Word(@ + 2)]

Opcode0xxx(m, opcode, u) ==
  IF opcode = Op(0, 0, 14, 0) THEN
    [m EXCEPT !.display = ResetMachine.display, !.drawFlag = TRUE]
  ELSE IF opcode = Op(0, 0, 14, 14) THEN
    LET k == Byte(m.sp + 255)
        m1 == Touch([m EXCEPT !.sp = k], "stack", k < STACK_SIZE)
    IN  [m1 EXCEPT !.pc = StackRead(m1, k, u)]
  ELSE m

Opcode1xxx(m, addr) == [m EXCEPT !.pc = addr]

Opcode2xxx(m, addr, u) ==
  LET k == m.sp
      m1 == StackWrite([m EXCEPT !.sp = Byte(k + 1)], k, m.pc, u)
  IN  [m1 EXCEPT !.pc = addr]

Opcode3xxx(m, reg, val) == IF m.V[reg] = val THEN Skip(m) ELSE m
Opcode4xxx(m, reg, val) == IF m.V[reg] # val THEN Skip(m) ELSE m
Opcode5xxx(m, regX, regY) == IF m.V[regX] = m.V[regY] THEN Skip(m) ELSE m
Opcode6xxx(m, reg, val) == [m EXCEPT !.V[reg] = val]
Opcode7xxx(m, reg, val) == [m EXCEPT !.V[reg] = Byte(@ + val)]
OpcodeAxxx(m, addr) == [m EXCEPT !.I = addr]
OpcodeBxxx(m, addr) == [m EXCEPT !.pc = Word(addr + m.V[0])]
OpcodeCxxx(m, reg, val, u) == [m EXCEPT !.V[reg] = BitAnd(u.rnd % 256, val)]

\* AddWithCarry with the carry test sum >= 0xFF
AddCarryAt255(m, regX, regY) ==
  LET sum == m.V[regX] + m.V[regY]
      m1 == [m EXCEPT !.V[15] = IF sum >= 255 THEN 1 ELSE 0]
  IN  [m1 EXCEPT !.V[regX] = sum % 256]

\* case 0x4 of Opcode8xxx: the flag is stored first, the sum second
AddWithCarry(m, regX, regY) ==
  LET sum == m.V[regX] + m.V[regY]
      m1 == [m EXCEPT !.V[15] = IF sum > 255 THEN 1 ELSE 0]
  IN  [m1 EXCEPT !.V[regX] = sum % 256]

\* case 0x5 of Opcode8xxx: the flag is stored first, then V[regX] -= V[regY]
SubtractXY(m, regX, regY) ==
  LET m1 == [m EXCEPT !.V[15] = IF m.V[regX] > m.V[regY] THEN 1 ELSE 0]
  IN  [m1 EXCEPT !.V[regX] = Byte(m1.V[regX] - m1.V[regY] + 256)]

Opcode8xxx(m, regX, regY, nib) ==
  CASE nib = 0 -> [m EXCEPT !.V[regX] = m.V[regY]]
    [] nib = 1 -> [m EXCEPT !.V[regX] = BitOr(@, m.V[regY])]
    [] nib = 2 -> [m EXCEPT !.V[regX] = BitAnd(@, m.V[regY])]
    [] nib = 3 -> [m EXCEPT !.V[regX] = BitXor(@, m.V[regY])]
    [] nib = 4 -> AddWithCarry(m, regX, regY)
    [] nib = 5 -> SubtractXY(m, regX, regY)
    [] nib = 6 ->
         LET m1 == [m EXCEPT !.V[15] = m.V[regY] % 2]
         IN  [m1 EXCEPT !.V[regX] = m1.V[regY] \div 2]
    [] nib = 7 ->
         LET m1 == [m EXCEPT !.V[15] = IF m.V[regY] > m.V[regX] THEN 1 ELSE 0]
         IN  [m1 EXCEPT !.V[regX] = Byte(m1.V[regY] - m1.V[regX] + 256)]
    [] nib = 14 ->
         LET m1 == [m EXCEPT !.V[15] = m.V[regY] \div 128]
         IN  [m1 EXCEPT !.V[regX] = Byte(m1.V[regY] * 2)]
    [] OTHER -> m

Opcode9xxx(m, regX, regY) == IF m.V[regX] # m.V[regY] THEN Skip(m) ELSE m

\* the inner loop of OpcodeDxxx over col, for one sprite row
RECURSIVE DrawCols(_, _, _, _, _)
RECURSIVE DrawColsSet(_, _, _, _, _)

\* DrawCols with display[idx] |= 1 for display[idx] ^= 1
DrawColsSet(m, x, yrow, sprite_byte, col) ==
  IF col >= 8 \/ x + col >= DISPLAY_WIDTH THEN m
  ELSE
    LET sprite_pixel == (sprite_byte \div (2 ^ (7 - col))) % 2
        idx == yrow * DISPLAY_WIDTH + (x + col)
    IN  IF sprite_pixel = 1 THEN
          IF m.display[idx] = 1 THEN
            DrawColsSet([m EXCEPT !.V[15] = 1, !.display[idx] = BitOr(@, 1)],
                     x, yrow, sprite_byte, col + 1)
          ELSE
            DrawColsSet([m EXCEPT !.display[idx] = BitOr(@, 1)],
                     x, yrow, sprite_byte, col + 1)
        ELSE DrawColsSet(m, x, yrow, sprite_byte, col + 1)

DrawCols(m, x, yrow, sprite_byte, col) ==
  IF col >= 8 \/ x + col >= DISPLAY_WIDTH THEN m
  ELSE
    LET sprite_pixel == (sprite_byte \div (2 ^ (7 - col))) % 2
        idx == yrow * DISPLAY_WIDTH + (x + col)
    IN  IF sprite_pixel = 1 THEN
          IF m.display[idx] = 1 THEN
            DrawCols([m EXCEPT !.V[15] = 1, !.display[idx] = BitXor(@, 1)],
                     x, yrow, sprite_byte, col + 1)
          ELSE
            DrawCols([m EXCEPT !.display[idx] = BitXor(@, 1)],
                     x, yrow, sprite_byte, col + 1)
        ELSE DrawCols(m, x, yrow, sprite_byte, col + 1)

\* the outer loop of OpcodeDxxx over row
RECURSIVE DrawRows(_, _, _, _, _, _)
RECURSIVE DrawRowsWrap(_, _, _, _, _, _)

\* DrawRows without the break at the bottom edge: rows wrap to the top
DrawRowsWrap(m, x, y, nib, row, u) ==
  IF row >= nib THEN m
  ELSE
    LET sprite_byte == MemRead(m, m.I + row, u)
        m1 == Touch(m, "memory", m.I + row < MEMORY_SIZE)
    IN  DrawRowsWrap(DrawCols(m1, x, (y + row) % DISPLAY_HEIGHT,
                              sprite_byte, 0), x, y, nib, row + 1, u)

DrawRows(m, x, y, nib, row, u) ==
  IF row >= nib \/ y + row >= DISPLAY_HEIGHT THEN m
  ELSE
    LET sprite_byte == MemRead(m, m.I + row, u)
        m1 == Touch(m, "memory", m.I + row < MEMORY_SIZE)
    IN  DrawRows(DrawCols(m1, x, y + row, sprite_byte, 0), x, y, nib, row + 1, u)

\* OpcodeDxxx without the line V[0xF] = 0
OpcodeDxxxKeepsFlag(m, regX, regY, nib, u) ==
  LET x == m.V[regX] % DISPLAY_WIDTH
      y == m.V[regY] % DISPLAY_HEIGHT
  IN  [DrawRows(m, x, y, nib, 0, u) EXCEPT !.drawFlag = TRUE]

OpcodeDxxx(m, regX, regY, nib, u) ==
  LET x == m.V[regX] % DISPLAY_WIDTH
      y == m.V[regY] % DISPLAY_HEIGHT
      m1 == [m EXCEPT !.V[15] = 0]
  IN  [DrawRows(m1, x, y, nib, 0, u) EXCEPT !.drawFlag = TRUE]

OpcodeExxx(m, reg, nib, u) ==
  IF nib \in {158, 161} THEN
    LET k == m.V[reg]
        m1 == Touch(m, "keypad", k < NUM_KEYS)
        down == KeyRead(m, k, u) # 0
    IN  IF (nib = 158 /\ down) \/ (nib = 161 /\ ~down) THEN Skip(m1) ELSE m1
  ELSE m

\* WaitKey with the scan of the keypad running from 15 down to 0
WaitKeyHighest(m, reg) ==
  LET down == {i \in 0 .. NUM_KEYS - 1 : m.keypad[i] # 0}
  IN  IF down # {}
      THEN [m EXCEPT !.V[reg] = CHOOSE i \in down : \A j \in down : i >= j]
      ELSE [m EXCEPT !.pc = Word(@ + 65534)]

\* WaitKey with the flag key_pressed set by the scan whether or not a key
\* is down, so that pc is not rewound
WaitKeyNoRewind(m, reg) ==
  LET down == {i \in 0 .. NUM_KEYS - 1 : m.keypad[i] # 0}
  IN  IF down # {}
      THEN [m EXCEPT !.V[reg] = CHOOSE i \in down : \A j \in down : i <= j]
      ELSE [m EXCEPT !.V[reg] = NUM_KEYS - 1]

\* case 0x0A of OpcodeFxxx
WaitKey(m, reg) ==
  LET down == {i \in 0 .. NUM_KEYS - 1 : m.keypad[i] # 0}
  IN  IF down # {}
      THEN [m EXCEPT !.V[reg] = CHOOSE i \in down : \A j \in down : i <= j]
      ELSE [m EXCEPT !.pc = Word(@ + 65534)]

\* case 0x55 of OpcodeFxxx, from loop index i
RECURSIVE StoreRegs(_, _, _, _)
StoreRegs(m, reg, i, u) ==
  IF i > reg THEN m
  ELSE StoreRegs(MemWrite(m, m.I + i, m.V[i], u), reg, i + 1, u)

\* case 0x65 of OpcodeFxxx, from loop index i
RECURSIVE LoadRegs(_, _, _, _)
LoadRegs(m, reg, i, u) ==
  IF i > reg THEN m
  ELSE LET m1 == Touch(m, "memory", m.I + i < MEMORY_SIZE)
       IN  LoadRegs([m1 EXCEPT !.V[i] = MemRead(m, m.I + i, u)], reg, i + 1, u)

OpcodeFxxx(m, reg, nib, u) ==
  CASE nib = 7 -> [m EXCEPT !.V[reg] = m.delay_timer]
    [] nib = 10 -> WaitKey(m, reg)
    [] nib = 21 -> [m EXCEPT !.delay_timer = m.V[reg]]
    [] nib = 24 -> [m EXCEPT !.sound_timer = m.V[reg]]
    [] nib = 30 -> [m EXCEPT !.I = Word(@ + m.V[reg])]
    [] nib = 41 -> [m EXCEPT !.I = FONTSET_ADDR + m.V[reg] * 5]
    [] nib = 51 ->
         LET m1 == MemWrite(m, m.I, m.V[reg] \div 100, u)
             m2 == MemWrite(m1, m1.I + 1, (m1.V[reg] \div 10) % 10, u)
         IN  MemWrite(m2, m2.I + 2, m2.V[reg] % 10, u)
    [] nib = 85 -> StoreRegs(m, reg, 0, u)
    [] nib = 101 -> LoadRegs(m, reg, 0, u)
    [] OTHER -> m

\* the word Cycle fetches at pc
Fetch(m, u) == MemRead(m, m.pc, u) * 256 + MemRead(m, m.pc + 1, u)

\* the switch of Cycle on the first nibble
Dispatch(m, opcode, u) ==
  LET nib1 == opcode \div 4096
      regX == (opcode \div 256) % 16
      regY == (opcode \div 16) % 16
      nib4 == opcode % 16
      addr == opcode % 4096
      val == opcode % 256
  IN  CASE nib1 = 0 -> Opcode0xxx(m, opcode, u)
        [] nib1 = 1 -> Opcode1xxx(m, addr)
        [] nib1 = 2 -> Opcode2xxx(m, addr, u)
        [] nib1 = 3 -> Opcode3xxx(m, regX, val)
        [] nib1 = 4 -> Opcode4xxx(m, regX, val)
        [] nib1 = 5 -> Opcode5xxx(m, regX, regY)
        [] nib1 = 6 -> Opcode6xxx(m, regX, val)
        [] nib1 = 7 -> Opcode7xxx(m, regX, val)
        [] nib1 = 8 -> Opcode8xxx(m, regX, regY, nib4)
        [] nib1 = 9 -> Opcode9xxx(m, regX, regY)
        [] nib1 = 10 -> OpcodeAxxx(m, addr)
        [] nib1 = 11 -> OpcodeBxxx(m, addr)
        [] nib1 = 12 -> OpcodeCxxx(m, regX, val, u)
        [] nib1 = 13 -> OpcodeDxxx(m, regX, regY, nib4, u)
        [] nib1 = 14 -> OpcodeExxx(m, regX, val, u)
        [] OTHER -> OpcodeFxxx(m, regX, val, u)

\* the machine after one Cycle from m, with m.oobs the arrays it indexed
\* out of range
Step(m, u) ==
  LET m0 == [memory |-> m.memory, V |-> m.V, I |-> m.I, pc |-> m.pc,
             sp |-> m.sp, stack |-> m.stack, delay_timer |-> m.delay_timer,
             sound_timer |-> m.sound_timer, keypad |-> m.keypad,
             display |-> m.display, drawFlag |-> m.drawFlag, oobs |-> {}]
      opcode == Fetch(m0, u)
      m1 == Touch([m0 EXCEPT !.pc = Word(@ + 2)], "memory",
                  m0.pc + 1 < MEMORY_SIZE)
  IN  Dispatch(m1, opcode, u)

\* what OpcodeDxxx reads before it draws, when opcode is DXYN
Seen(opcode) ==
  IF opcode \div 4096 = 13
  THEN [x |-> V[(opcode \div 256) % 16] % DISPLAY_WIDTH,
        y |-> V[(opcode \div 16) % 16] % DISPLAY_HEIGHT,
        i |-> I,
        lit |-> {c \in DOMAIN display : display[c] # 0}]
  ELSE NoDraw

\* the calls not yet returned from once opcode, fetched at pc, has run:
\* 2NNN adds the address after it and the stack pointer it found, 00EE
\* takes the latest away
Pending(opcode) ==
  IF opcode \div 4096 = 2 THEN
    Append(pending, [ret |-> Word(pc + 2), sp |-> sp])
  ELSE IF opcode = Op(0, 0, 14, 14) /\ pending # <<>> THEN
    SubSeq(pending, 1, Len(pending) - 1)
  ELSE pending

\* one call of Cycle
Execute ==
  /\ \E u \in Resolutions :
       LET m == Step(Machine, u)
           opcode == Fetch(Machine, u)
       IN  /\ Becomes(m)
           /\ call' = [Called("Cycle", opcode, pc, "")
                         EXCEPT !.seen = Seen(opcode)]
           /\ oob' = oob \cup m.oobs
           /\ pending' = Pending(opcode)
  /\ cycles' = cycles + 1

\* Cycle, as long as the run has Cycles left
Cycle == cycles < MaxCycles /\ Execute

\* UpdateTimers with the two tests for > 0 left out: uint8_t wraps at 0
UpdateTimersWrap ==
  /\ delay_timer' = Byte(delay_timer + 255)
  /\ sound_timer' = Byte(sound_timer + 255)
  /\ call' = Called("UpdateTimers", 0, 0, "")
  /\ UNCHANGED <<memory, V, I, pc, sp, stack, keypad, display, drawFlag,
                 oob, cycles, pending>>

\* UpdateTimers with the line for sound_timer left out
UpdateTimersDelayOnly ==
  /\ delay_timer' = IF delay_timer > 0 THEN delay_timer - 1 ELSE delay_timer
  /\ sound_timer' = sound_timer
  /\ call' = Called("UpdateTimers", 0, 0, "")
  /\ UNCHANGED <<memory, V, I, pc, sp, stack, keypad, display, drawFlag,
                 oob, cycles, pending>>

UpdateTimers ==
  /\ delay_timer' = IF delay_timer > 0 THEN delay_timer - 1 ELSE delay_timer
  /\ sound_timer' = IF sound_timer > 0 THEN sound_timer - 1 ELSE sound_timer
  /\ call' = Called("UpdateTimers", 0, 0, "")
  /\ UNCHANGED <<memory, V, I, pc, sp, stack, keypad, display, drawFlag,
                 oob, cycles, pending>>

SetKey(key, pressed) ==
  /\ keypad' = [keypad EXCEPT ![key] = IF pressed THEN 1 ELSE 0]
  /\ call' = Called("SetKey", key, IF pressed THEN 1 ELSE 0, "")
  /\ UNCHANGED <<memory, V, I, pc, sp, stack, delay_timer, sound_timer,
                 display, drawFlag, oob, cycles, pending>>

GetSoundState == sound_timer > 0

ClearDrawFlag ==
  /\ drawFlag' = FALSE
  /\ call' = Called("ClearDrawFlag", 0, 0, "")
  /\ UNCHANGED <<memory, V, I, pc, sp, stack, delay_timer, sound_timer,
                 keypad, display, oob, cycles, pending>>

\* ------------------------------------------------------------- ROM files
\* the bytes of a sequence of opcode words, big-endian
Bytes(ws) ==
  [i \in 1 .. 2 * Len(ws) |->
     IF i % 2 = 1 THEN ws[(i + 1) \div 2] \div 256 ELSE ws[i \div 2] % 256]

\* bytes extended to length n by repeating the two bytes of word w
Padded(bytes, n, w) ==
  [i \in 1 .. n |->
     IF i <= Len(bytes) THEN bytes[i]
     ELSE IF i % 2 = 1 THEN w \div 256 ELSE w % 256]

\* a file that opens with content data, and a file that does not open
File(data) == [open |-> TRUE, data |-> data]
NoFile == [open |-> FALSE, data |-> <<>>]

\* F30A; 1202: wait for a key into V3, then spin
KeyWaitRom == <<Op(15, 3, 0, 10), Op(1, 2, 0, 2)>>
\* 2200: a call to itself, nesting without end
CallRom == <<Op(2, 2, 0, 0)>>
\* 00EE: a return with no call pending
ReturnRom == <<Op(0, 0, 14, 14)>>
\* 60FF; BFFF: jump to 0xFFF + V0
JumpV0Rom == <<Op(6, 0, 15, 15), Op(11, 15, 15, 15)>>
\* AFFF; 6103; F11E; F155; 1208: index register 0xFFF + 3, then a store
IndexRom == <<Op(10, 15, 15, 15), Op(6, 1, 0, 3), Op(15, 1, 1, 14),
              Op(15, 1, 5, 5), Op(1, 2, 0, 8)>>
\* 1FFE: run the last word of memory and fetch past it
EdgeRom == <<Op(1, 15, 15, 14)>>
\* 6003; F015; 6102; F118; 1208: delay timer 3, sound timer 2, then spin
TimerRom == <<Op(6, 0, 0, 3), Op(15, 0, 1, 5), Op(6, 1, 0, 2),
              Op(15, 1, 1, 8), Op(1, 2, 0, 8)>>
\* 6002; F018; F015; 1202: both timers rewritten in a loop
BeepRom == <<Op(6, 0, 0, 2), Op(15, 0, 1, 8), Op(15, 0, 1, 5),
             Op(1, 2, 0, 2)>>

Roms == <<KeyWaitRom, CallRom, ReturnRom, JumpV0Rom, IndexRom, EdgeRom,
         TimerRom, BeepRom>>

\* the largest image LoadROM accepts
MaxRomSize == MEMORY_SIZE - START_ADDR

\* the files the host loads: each program as it is, an image that fills
\* memory exactly, one that is a byte too long, and a missing file
Files ==
  [i \in DOMAIN Roms |-> File(Bytes(Roms[i]))]
    \o << File(Padded(<<>>, MaxRomSize, Op(1, 2, 0, 0))),
          File(Padded(<<>>, MaxRomSize + 1, Op(1, 2, 0, 0))),
          NoFile >>

\* memory after file.read of data at START_ADDR into mem
ReadInto(mem, data) ==
  [a \in 0 .. MEMORY_SIZE - 1 |->
     IF a >= START_ADDR /\ a < START_ADDR + Len(data)
     THEN data[a - START_ADDR + 1] ELSE mem[a]]

\* RomFits with the comparison size > MEMORY_SIZE - START_ADDR off by one
RomFitsOffByOne(size) == ~(size > MEMORY_SIZE - START_ADDR + 1)

\* the condition under which LoadROM reads the file into memory
RomFits(size) == ~(size > MEMORY_SIZE - START_ADDR)

\* the machine LoadROM leaves after it has read data into memory
LoadedMachine(data) ==
  [ResetMachine EXCEPT !.memory = ReadInto(ResetMachine.memory, data)]

\* LoadedMachine of the files that LoadROM reads, by their place in Files
Loaded ==
  [f \in {i \in DOMAIN Files : Files[i].open /\ RomFits(Len(Files[i].data))}
     |-> LoadedMachine(Files[f].data)]

OpenError == "Error: Could not open ROM file"
RomTooLarge == "Error: ROM too large"

\* the argument recorded for LoadROM: the size of the file, -1 if it
\* does not open
FileSize(file) == IF file.open THEN Len(file.data) ELSE 0 - 1

\* LoadROM without its call of Reset: the file is read over the machine
\* as it is
LoadROMNoReset(f) ==
  /\ IF ~Files[f].open THEN
       /\ UNCHANGED machineVars
       /\ call' = Called("LoadROM", FileSize(Files[f]), f, OpenError)
     ELSE IF ~RomFits(Len(Files[f].data)) THEN
       /\ UNCHANGED machineVars
       /\ call' = Called("LoadROM", FileSize(Files[f]), f, RomTooLarge)
     ELSE
       /\ Becomes([Machine EXCEPT !.memory = ReadInto(memory, Files[f].data)])
       /\ call' = Called("LoadROM", FileSize(Files[f]), f, "")
  /\ oob' = {}
  /\ cycles' = 0
  /\ pending' = <<>>

\* LoadROM of the file at place f of Files
LoadROM(f) ==
  /\ IF ~Files[f].open THEN
       /\ Becomes(ResetMachine)
       /\ call' = Called("LoadROM", FileSize(Files[f]), f, OpenError)
     ELSE IF ~RomFits(Len(Files[f].data)) THEN
       /\ Becomes(ResetMachine)
       /\ call' = Called("LoadROM", FileSize(Files[f]), f, RomTooLarge)
     ELSE
       /\ Becomes(Loaded[f])
       /\ call' = Called("LoadROM", FileSize(Files[f]), f, "")
  /\ oob' = {}
  /\ cycles' = 0
  /\ pending' = <<>>

Next ==
  \/ \E f \in DOMAIN Files : LoadROM(f)
  \/ Reset
  \/ Cycle
  \/ UpdateTimers
  \/ \E key \in HostKeys, pressed \in BOOLEAN : SetKey(key, pressed)
  \/ ClearDrawFlag

Spec == Init /\ [][Next]_vars

\* the loop of main calls UpdateTimers again and again, at 60 Hz
FairSpec == Spec /\ WF_vars(UpdateTimers)

\* ------------------------------------------- register-to-register programs
\* register contents the programs below start the instruction from
AluBytes == {0, 1, 255}
\* the cases of Opcode8xxx the programs below run
AluOps == {4, 5}

\* 6Xaa; 6Ybb; 8XYn: load regX and regY, then one instruction of class 8
AluRom(X, Y, a, b, n) == <<Op(6, X, a \div 16, a % 16),
                           Op(6, Y, b \div 16, b % 16), Op(8, X, Y, n)>>

\* a machine that has just loaded one of these programs
AluInit ==
  /\ \E X, Y \in 0 .. NUM_REGS - 1 : \E a, b \in AluBytes : \E n \in AluOps :
       Is(LoadedMachine(Bytes(AluRom(X, Y, a, b, n))))
  /\ call = Called("LoadROM", 6, 0, "")
  /\ oob = {}
  /\ cycles = 0
  /\ pending = <<>>

\* Cycle, until the three instructions of the program have run
AluCycle == pc < START_ADDR + 6 /\ Cycle

AluSpec == AluInit /\ [][AluCycle]_vars

\* ------------------------------------------------------- sprite programs
\* the last Cycle ran a jump to its own address: the program has ended
Halted ==
  call.op = "Cycle" /\ call.a \div 4096 = 1 /\ call.a % 4096 = call.b

\* Cycle, until the program has ended or has run MaxRunCycles Cycles
RunCycle == ~Halted /\ cycles < MaxRunCycles /\ Execute

\* the pairs of registers X, Y the sprite programs draw with
DrawRegs == {0, 1, 15}
\* the bytes they load into regX and regY: origins at the left and top
\* edges, near the right and bottom edges, and bytes above 63 and 31
DrawXs == {0, 60, 127}
DrawYs == {0, 30, 63}
\* the heights N they draw
DrawHeights == {0, 1, 3, 15}
\* the sixteen bytes their sprites are taken from, as eight words
DrawSprites == {<<65409, 15615, 24, 42405, 65280, 4080, 255, 33023>>,
                <<33023, 255, 0, 65535, 1, 32768, 43690, 21845>>}

\* 6Xaa; 6Ybb; A210; DXYN; A211; DXYN; DXYN; 120E; sixteen sprite bytes:
\* a sprite drawn on the cleared screen, then a second sprite, the rows of
\* the first one row down, drawn twice over it
DrawRom(X, Y, a, b, n, sprite) ==
  <<Op(6, X, a \div 16, a % 16), Op(6, Y, b \div 16, b % 16),
    Op(10, 2, 1, 0), Op(13, X, Y, n),
    Op(10, 2, 1, 1), Op(13, X, Y, n), Op(13, X, Y, n),
    Op(1, 2, 0, 14)>> \o sprite

\* a machine that has just loaded one of these programs
DrawInit ==
  /\ \E X, Y \in DrawRegs : \E a \in DrawXs : \E b \in DrawYs :
       \E n \in DrawHeights : \E sprite \in DrawSprites :
         Is(LoadedMachine(Bytes(DrawRom(X, Y, a, b, n, sprite))))
  /\ call = Called("LoadROM", 32, 0, "")
  /\ oob = {}
  /\ cycles = 0
  /\ pending = <<>>

DrawSpec == DrawInit /\ [][RunCycle]_vars

\* ----------------------------------------------- register block programs
\* the byte the block programs load into register i
BlockByte(i) == 160 + i
\* the index registers they store at: inside memory, with the last of
\* sixteen bytes at 0xFFF, and with bytes past 0xFFF
BlockAddrs == {768, 4080, 4088, 4095}

\* words number from .. to of the sequence 0, 1, 2, ... made by f
RECURSIVE Words(_, _, _)
Words(f(_), from, to) ==
  IF from > to THEN <<>> ELSE <<f(from)>> \o Words(f, from + 1, to)

\* 60A0 .. 6FAF; ANNN; FX55; 6000 .. 6X00; FX65; a jump to itself: every
\* register loaded, registers 0 .. X stored at I, zeroed and loaded back
BlockRom(X, addr) ==
  LET load(i) == Op(6, i, BlockByte(i) \div 16, BlockByte(i) % 16)
      zero(i) == Op(6, i, 0, 0)
      end == START_ADDR + 2 * (NUM_REGS + X + 4)
  IN  Words(load, 0, NUM_REGS - 1)
        \o <<Op(10, 0, 0, 0) + addr, Op(15, X, 5, 5)>>
        \o Words(zero, 0, X)
        \o <<Op(15, X, 6, 5), Op(1, 0, 0, 0) + end>>

\* a machine that has just loaded one of these programs
BlockInit ==
  /\ \E X \in 0 .. NUM_REGS - 1 : \E addr \in BlockAddrs :
       LET data == Bytes(BlockRom(X, addr))
       IN  /\ Is(LoadedMachine(data))
           /\ call = Called("LoadROM", Len(data), 0, "")
  /\ oob = {}
  /\ cycles = 0
  /\ pending = <<>>

BlockSpec == BlockInit /\ [][RunCycle]_vars

\* ------------------------------------------------ subroutine programs
\* 2204; 1202; 2208; 00EE; 220C; 00EE; ...; 00EE: depth subroutines, each
\* but the last calling the next and then returning, and a jump to itself
\* after the first call
NestRom(depth) ==
  LET word(j) == IF j % 2 = 0 THEN Op(2, 0, 0, 0) + START_ADDR + 2 * (j + 2)
                 ELSE IF j = 1 THEN Op(1, 0, 0, 0) + START_ADDR + 2
                 ELSE Op(0, 0, 14, 14)
  IN  Words(word, 0, 2 * depth - 1) \o <<Op(0, 0, 14, 14)>>

\* how far past 0xFFF the subroutine below stores: at the first byte of
\* stack, of keypad and of drawFlag in the layout of the class
StrayOffsets == {OFF_STACK - 4095, OFF_KEYPAD - 4095, OFF_DRAWFLAG - 4095}
\* the byte it stores there
StrayBytes == {0, 255}

\* 00E0; 2206; 1204; AFFF; 60FF; F01E as often as 255 goes into b; 60rr;
\* F01E; 60vv; F055; 00EE: the screen cleared, then a subroutine that adds
\* b to the index register 0xFFF, stores the byte v there and returns
StrayRom(b, v) ==
  LET add(j) == Op(15, 0, 1, 14)
      r == b % 255
  IN  <<Op(0, 0, 14, 0), Op(2, 2, 0, 6), Op(1, 2, 0, 4),
        Op(10, 15, 15, 15), Op(6, 0, 15, 15)>>
        \o Words(add, 1, b \div 255)
        \o <<Op(6, 0, r \div 16, r % 16), Op(15, 0, 1, 14),
             Op(6, 0, v \div 16, v % 16), Op(15, 0, 5, 5), Op(0, 0, 14, 14)>>

\* a machine that has just loaded one of these programs
CallInit ==
  /\ \E rom \in {NestRom(depth) : depth \in 1 .. STACK_SIZE}
                  \cup {StrayRom(b, v) : b \in StrayOffsets, v \in StrayBytes} :
       LET data == Bytes(rom)
       IN  /\ Is(LoadedMachine(data))
           /\ call = Called("LoadROM", Len(data), 0, "")
  /\ oob = {}
  /\ cycles = 0
  /\ pending = <<>>

CallSpec == CallInit /\ [][RunCycle]_vars

\* -------------------------------------------- one-instruction programs
\* the first nibbles of the words the programs below run: the classes with
\* a sub-opcode in the low nibble or the low byte
WordClasses == {0, 5, 8, 9, 14, 15}
\* their second and third nibbles, and the byte they load into V0 and V1
WordXs == {0, 2}
WordYs == {0, 1, 2, 9, 10}
WordBytes == {16, 255}

\* 60aa; 61aa; the word w; 1206; 1208: V0 and V1 equal and not V2, one
\* instruction, and a jump to itself both after it and where a skip lands
WordRom(a, w) ==
  <<Op(6, 0, a \div 16, a % 16), Op(6, 1, a \div 16, a % 16), w,
    Op(1, 2, 0, 6), Op(1, 2, 0, 8)>>

\* a machine that has just loaded one of these programs
WordInit ==
  /\ \E n1 \in WordClasses : \E x \in WordXs : \E y \in WordYs :
       \E n \in 0 .. 15 : \E a \in WordBytes :
         Is(LoadedMachine(Bytes(WordRom(a, Op(n1, x, y, n)))))
  /\ call = Called("LoadROM", 10, 0, "")
  /\ oob = {}
  /\ cycles = 0
  /\ pending = <<>>

WordSpec == WordInit /\ [][RunCycle]_vars

TypeOK ==
  /\ pc \in 0 .. 65535
  /\ I \in 0 .. 65535
  /\ sp \in 0 .. 255
  /\ delay_timer \in 0 .. 255
  /\ sound_timer \in 0 .. 255
  /\ \A r \in 0 .. NUM_REGS - 1 : V[r] \in 0 .. 255

\* ------------------------------------------------------------ properties
\* the last call was a Cycle that fetched a word with first nibble n1 and
\* low byte val
Ran(c, n1, val) ==
  c.op = "Cycle" /\ c.a \div 4096 = n1 /\ c.a % 256 = val
RegX(c) == (c.a \div 256) % 16
RegY(c) == (c.a \div 16) % 16

\* the keys whose input latch entry is true
KeysDown == {i \in 0 .. NUM_KEYS - 1 : keypad[i] # 0}

\* C1: a Cycle that fetches FX0A at address a leaves pc at a while no input
\* latch entry is true; with some entry true it leaves pc at a + 2 and regX
\* holding the lowest index of a true entry.
C1_KeyWait ==
  [][Ran(call', 15, 10) =>
       IF KeysDown = {}
       THEN pc' = call'.b
       ELSE /\ pc' = Word(call'.b + 2)
            /\ V'[RegX(call')] \in KeysDown
            /\ \A k \in KeysDown : V'[RegX(call')] <= k]_vars

\* the wait at 0x200 has spun and then ended after keys 0 and 15 went down
C1_Witness ==
  /\ Ran(call, 15, 10)
  /\ cycles >= 2
  /\ pc = call.b + 2
  /\ keypad[0] # 0 /\ keypad[NUM_KEYS - 1] # 0
  /\ V[RegX(call)] = 0

\* C2: a Cycle that fetches FX0A while no input latch entry is true leaves
\* memory, registers, index register, program counter, stack, stack
\* pointer, timers, input latch, framebuffer and dirty flag as they were.
C2_SpinFixedPoint ==
  [][(Ran(call', 15, 10) /\ KeysDown = {}) =>
       /\ memory' = memory /\ V' = V /\ I' = I /\ pc' = pc
       /\ stack' = stack /\ sp' = sp
       /\ delay_timer' = delay_timer /\ sound_timer' = sound_timer
       /\ keypad' = keypad /\ display' = display
       /\ drawFlag' = drawFlag]_vars

\* the wait has been executed three times with no key down
C2_Witness ==
  /\ Ran(call, 15, 10)
  /\ cycles = 3
  /\ KeysDown = {}
  /\ pc = call.b

\* the state of a freshly constructed machine
Baseline ==
  [memory |-> [a \in 0 .. 4095 |-> IF a < 80 THEN fontset[a + 1] ELSE 0],
   V |-> [r \in 0 .. 15 |-> 0],
   I |-> 0, pc |-> 512, sp |-> 0,
   stack |-> [k \in 0 .. 15 |-> 0],
   delay_timer |-> 0, sound_timer |-> 0,
   keypad |-> [k \in 0 .. 15 |-> 0],
   display |-> [c \in 0 .. 2047 |-> 0],
   drawFlag |-> FALSE]

\* C3 (as claimed): the stack pointer is at most 16 and no Cycle has read or
\* written a stack slot with an index outside 0..15.
C3_StackInRange == sp <= 16 /\ "stack" \notin oob

\* C4 (as claimed, and only of machines whose stack accesses were all in
\* range): the program counter and the index register are within
\* 0x000..0xFFF and no Cycle has read or written a memory byte at an
\* address outside 0..4095.
C4_AddressesMasked ==
  "stack" \notin oob => pc <= 4095 /\ I <= 4095 /\ "memory" \notin oob

\* C5: after LoadROM of a file longer than 3584 bytes the error written is
\* "ROM too large" and the machine is in the Reset baseline; a file of
\* exactly 3584 bytes is read into memory up to its last byte at 0xFFF.
C5_TooLargeRejected ==
  call.op = "LoadROM" =>
    /\ call.a > 3584 => call.err = RomTooLarge /\ Machine = Baseline
    /\ call.a = 3584 =>
         call.err = "" /\ memory[4095] = Files[call.b].data[3584]

\* LoadROM has just rejected a file of 3585 bytes
C5_Witness ==
  call.op = "LoadROM" /\ call.a = 3585 /\ call.err = RomTooLarge

\* C6: after Reset, as after construction, the machine is in the baseline:
\* memory zero but for the font table at 0x000..0x04F, registers, index
\* register, stack pointer, stack and timers 0, program counter 0x200, no
\* key down, framebuffer off, dirty flag false.
C6_ResetBaseline ==
  call.op \in {"Reset", "Chip8"} => Machine = Baseline

\* Reset has just been called and left the baseline
C6_Witness == call.op = "Reset" /\ Machine = Baseline

\* C7: after LoadROM of a file of n <= 3584 bytes memory holds byte i of the
\* file at 0x200 + i for every i < n, and the rest of memory and every
\* other member are as in the Reset baseline.
C7_LoadCopiesImage ==
  (call.op = "LoadROM" /\ call.a >= 0 /\ call.a <= 3584) =>
    LET data == Files[call.b].data
    IN  /\ call.err = ""
        /\ Len(data) = call.a
        /\ \A a \in 0 .. 4095 :
             memory[a] = IF a >= 512 /\ a < 512 + Len(data)
                         THEN data[a - 512 + 1] ELSE Baseline.memory[a]
        /\ [Machine EXCEPT !.memory = Baseline.memory] = Baseline

\* LoadROM has just read the two bytes of the call program
C7_Witness ==
  /\ call.op = "LoadROM" /\ call.a = 2
  /\ memory[512] = 34 /\ memory[513] = 0 /\ memory[514] = 0

\* C8: UpdateTimers takes 1 off the delay timer if it is not 0 and leaves
\* it at 0 otherwise, and the same for the sound timer, and both timers are
\* always within 0..255.
C8_TimersTick ==
  /\ [][call'.op = "UpdateTimers" =>
          /\ delay_timer' = IF delay_timer = 0 THEN 0 ELSE delay_timer - 1
          /\ sound_timer' = IF sound_timer = 0 THEN 0 ELSE sound_timer - 1]_vars
  /\ [](delay_timer \in 0 .. 255 /\ sound_timer \in 0 .. 255)

\* a tick has taken the delay timer to 1 with the sound timer resting at 0
C8_Witness ==
  call.op = "UpdateTimers" /\ delay_timer = 1 /\ sound_timer = 0

\* a Cycle that writes the sound timer, and one that writes the delay timer
WritesSound ==
  call'.op = "Cycle" /\ (Ran(call', 15, 24) \/ sound_timer' # sound_timer)
WritesDelay ==
  call'.op = "Cycle" /\ (Ran(call', 15, 21) \/ delay_timer' # delay_timer)

Ran8(c, n) == c.op = "Cycle" /\ c.a \div 4096 = 8 /\ c.a % 16 = n

\* C10 (as claimed): after 8XY4, for every X and Y, with sum the sum of regX
\* and regY before it, the flag register is 1 if sum > 255 and 0 otherwise
\* and regX is sum mod 256.
C10_AddCarryEveryX ==
  [][Ran8(call', 4) =>
       LET sum == V[RegX(call')] + V[RegY(call')]
       IN  /\ V'[15] = IF sum > 255 THEN 1 ELSE 0
           /\ V'[RegX(call')] = sum % 256]_vars

\* C10 (amended): after 8XY4, for every X and Y, regX is sum mod 256, and
\* for X other than 0xF the flag register is 1 if sum > 255 and 0 otherwise.
C10_AddCarry ==
  [][Ran8(call', 4) =>
       LET sum == V[RegX(call')] + V[RegY(call')]
       IN  /\ V'[RegX(call')] = sum % 256
           /\ RegX(call') # 15 => V'[15] = IF sum > 255 THEN 1 ELSE 0]_vars

\* 8014 has added 0xFF and 0x01 to regX = 0x00 with the flag register 1
C10_Witness ==
  /\ Ran8(call, 4) /\ RegX(call) = 0 /\ RegY(call) = 1
  /\ memory[513] = 255 /\ memory[515] = 1
  /\ V[0] = 0 /\ V[15] = 1

\* C11: after 8XY5, for every Y and every X other than 0xF (where regX and
\* the flag register are two registers), regX is (regX - regY) mod 256 of
\* the values both held before it, and the flag register is 1 if regX was
\* greater than regY before it and 0 otherwise.
C11_SubtractEveryXY ==
  [][Ran8(call', 5) /\ RegX(call') # 15 =>
       LET x == V[RegX(call')]
           y == V[RegY(call')]
       IN  /\ V'[RegX(call')] = (x - y + 256) % 256
           /\ V'[15] = IF x > y THEN 1 ELSE 0]_vars

\* the last call was a Cycle that fetched DXYN
RanDraw(c) == c.op = "Cycle" /\ c.a \div 4096 = 13

\* the smaller of two numbers
Min(a, b) == IF a < b THEN a ELSE b

\* C12: DXYN with x = regX mod 64 and y = regY mod 32 read before it changes
\* no framebuffer cell outside columns x .. min(x + 7, 63) and rows
\* y .. min(y + N - 1, 31): nothing wraps to the opposite edge.
C12_DrawClips ==
  [][RanDraw(call') =>
       LET x == V[RegX(call')] % DISPLAY_WIDTH
           y == V[RegY(call')] % DISPLAY_HEIGHT
           n == call'.a % 16
       IN  \A c \in DOMAIN display :
             display'[c] # display[c] =>
               /\ c % DISPLAY_WIDTH \in x .. Min(x + 7, DISPLAY_WIDTH - 1)
               /\ c \div DISPLAY_WIDTH \in
                    y .. Min(y + n - 1, DISPLAY_HEIGHT - 1)]_vars

\* a sprite of three rows, the first 0xFF, has been drawn on the cleared
\* screen at column 60 of row 30: columns 60 .. 63 of row 30 are on, and
\* the cells it would wrap to, the start of row 31 and of row 0, are off
C12_Witness ==
  /\ RanDraw(call) /\ call.seen.x = 60 /\ call.seen.y = 30
  /\ call.a % 16 = 3 /\ call.seen.lit = {}
  /\ \A col \in 60 .. 63 : display[30 * DISPLAY_WIDTH + col] = 1
  /\ \A col \in 0 .. 3 : display[31 * DISPLAY_WIDTH + col] = 0
  /\ \A col \in 0 .. 63 : display[col] = 0

\* C13: after DXYN the flag register is 1 exactly when at least one
\* framebuffer cell went from on to off during this draw, whatever the flag
\* register held before it, X or Y being 0xF included.
C13_DrawCollision ==
  [][RanDraw(call') =>
       V'[15] = IF \E c \in DOMAIN display :
                      display[c] # 0 /\ display'[c] = 0
                THEN 1 ELSE 0]_vars

\* DFYN, its column taken from the flag register, has drawn over pixels
\* that were on and has left the flag register 1
C13_Witness ==
  /\ RanDraw(call) /\ RegX(call) = 15 /\ call.a % 16 = 3
  /\ call.seen.lit # {}
  /\ \E c \in call.seen.lit : display[c] = 0
  /\ V[15] = 1

\* the pixels that are on
Lit == {c \in DOMAIN display : display[c] # 0}

\* C20: when DXYN runs right after the same DXYN, with the same origin and
\* the same index register (DXYN writes no memory, so with the same sprite
\* bytes), the framebuffer is again what it was before the first of the
\* two, and the flag register is 1 if the first turned a cell on.
C20_DrawTwice ==
  [][( /\ RanDraw(call) /\ RanDraw(call') /\ call'.a = call.a
       /\ call'.seen.x = call.seen.x /\ call'.seen.y = call.seen.y
       /\ call'.seen.i = call.seen.i ) =>
       /\ display' = [c \in DOMAIN display |->
                       IF c \in call.seen.lit THEN 1 ELSE 0]
       /\ Lit \ call.seen.lit # {} => V'[15] = 1]_vars

\* D013 has run twice at column 60 of row 30 over the sprite drawn there
\* before: the first time it turned cells of row 31 on, and after the
\* second time the screen shows the earlier sprite alone and the flag
\* register is 1
C20_Witness ==
  /\ RanDraw(call) /\ call.a = Op(13, 0, 1, 3) /\ call.b = START_ADDR + 12
  /\ call.seen.x = 60 /\ call.seen.y = 30
  /\ 31 * DISPLAY_WIDTH + 62 \in call.seen.lit
  /\ Lit = {30 * DISPLAY_WIDTH + col : col \in 60 .. 63}
             \cup {31 * DISPLAY_WIDTH + 60}
  /\ V[15] = 1

\* the address the block program in memory loads into the index register
BlockAddr == (memory[START_ADDR + 32] % 16) * 256 + memory[START_ADDR + 33]

\* C14: once FX65 has run after FX55 and the zeroing of registers 0 .. X,
\* for every X and every index register, registers 0 .. X hold what they
\* held before FX55, the registers above X are not changed, and the index
\* register is what it was before the two instructions.
C14_StoreLoadRoundTrip ==
  (call.op = "Cycle" /\ call.a \div 4096 = 15 /\ call.a % 256 = 101) =>
    /\ \A i \in 0 .. NUM_REGS - 1 : V[i] = BlockByte(i)
    /\ I = BlockAddr

\* the last call was a Cycle that fetched word w
RanWord(c, w) == c.op = "Cycle" /\ c.a = w

\* C16: 2NNN at address a with sp = s < 16 stores a + 2 in slot s of the
\* stack, makes sp s + 1 and pc NNN; and with at most 16 calls pending,
\* 00EE sets pc to the address after the latest call not yet returned from
\* and sp to what it was before that call.
C16_CallReturn ==
  [][/\ (call'.op = "Cycle" /\ call'.a \div 4096 = 2 /\ sp < STACK_SIZE) =>
          /\ stack' = [stack EXCEPT ![sp] = call'.b + 2]
          /\ sp' = sp + 1
          /\ pc' = call'.a % 4096
     /\ (RanWord(call', Op(0, 0, 14, 14)) /\ pending # <<>>
            /\ Len(pending) <= STACK_SIZE) =>
          /\ pc' = pending[Len(pending)].ret
          /\ sp' = pending[Len(pending)].sp]_vars

\* C17: a Cycle that changes a framebuffer cell leaves drawFlag true, and
\* no Cycle changes drawFlag from true to false.
C17_DirtyFlag ==
  [][call'.op = "Cycle" =>
       /\ display' # display => drawFlag'
       /\ drawFlag => drawFlag']_vars

\* C18: no Cycle and no UpdateTimers changes an entry of keypad, and
\* SetKey(k, pressed) makes entry k pressed and changes nothing else.
C18_LatchWrittenByInput ==
  [][/\ call'.op \in {"Cycle", "UpdateTimers"} => keypad' = keypad
     /\ call'.op = "SetKey" =>
          /\ keypad' = [keypad EXCEPT ![call'.a] = call'.b]
          /\ UNCHANGED <<memory, V, I, pc, sp, stack, delay_timer,
                         sound_timer, display, drawFlag>>]_vars

\* the encodings C15 lists: 0NNN other than 00E0 and 00EE, 5XYN and 9XYN
\* with N not 0, 8XYN with N in 8 .. D or F, EXNN other than 9E and A1,
\* FXNN other than 07, 0A, 15, 18, 1E, 29, 33, 55 and 65
Unrecognized(w) ==
  LET n1 == w \div 4096
  IN  \/ n1 = 0 /\ w \notin {Op(0, 0, 14, 0), Op(0, 0, 14, 14)}
      \/ n1 \in {5, 9} /\ w % 16 # 0
      \/ n1 = 8 /\ w % 16 \in (8 .. 13) \cup {15}
      \/ n1 = 14 /\ w % 256 \notin {158, 161}
      \/ n1 = 15 /\ w % 256 \notin {7, 10, 21, 24, 30, 41, 51, 85, 101}

\* C15: a Cycle that fetches one of the encodings listed changes nothing
\* but pc, which it advances by 2.
C15_UnrecognizedNoOp ==
  [][(call'.op = "Cycle" /\ Unrecognized(call'.a)) =>
       Machine' = [Machine EXCEPT !.pc = pc + 2]]_vars

\* C19: whatever byte regX holds, EX9E and EXA1 index keypad inside
\* 0 .. 15, and FX29 leaves the index register inside the font table,
\* 0x000 .. 0x04F.
C19_KeyAndFontInRange ==
  [][/\ (call'.op = "Cycle" /\ call'.a \div 4096 = 14
            /\ call'.a % 256 \in {158, 161}) => "keypad" \notin oob'
     /\ (call'.op = "Cycle" /\ call'.a \div 4096 = 15
            /\ call'.a % 256 = 41) =>
          I' \in FONTSET_ADDR .. FONTSET_ADDR + FONTSET_SIZE - 1]_vars

====
